---- MODULE Spec2Model ----
(***************************************************************************)
(* Model of pkg/manifestclient/mutation_tracker.go: AllActionsTracker[T]   *)
(* and actionTracker[T].                                                   *)
(*                                                                         *)
(* Go values are modelled with an explicit memory: AllActionsTracker       *)
(* structs, actionTracker structs, slice backing arrays and records each   *)
(* live in a heap indexed by address 1, 2, ...  A value of T is the        *)
(* address of a record (T is a pointer type, or a struct that refers to    *)
(* its payload).  A slice is the header [arr, len, cap]; a map is          *)
(* [nil, kv].  A panic is an outcome of the call: what the call wrote      *)
(* before it stays written, and the caller may recover and go on.          *)
(***************************************************************************)
EXTENDS Integers, Sequences, FiniteSets, TLC

VARIABLES trackers, ats, arrays, recs, log, base, last, writes, procs

vars == <<trackers, ats, arrays, recs, log, base, last, writes, procs>>

(***************************************************************************)
(* Bounds of the model.                                                    *)
(***************************************************************************)
MaxAdds == 3
MaxRecs == 6
MaxTrackers == 2
MaxBatch == 2
MaxWrites == 2
MaxListKeys == 4
MaxCalls == 2

(***************************************************************************)
(* Action and its constants.                                               *)
(***************************************************************************)
ActionApply == "Apply"
ActionApplyStatus == "ApplyStatus"
ActionUpdate == "Update"
ActionUpdateStatus == "UpdateStatus"
ActionCreate == "Create"
ActionDelete == "Delete"

AllActions ==
  {ActionApply, ActionApplyStatus, ActionUpdate, ActionUpdateStatus,
   ActionCreate, ActionDelete}

\* The Actions the callers of the model insert records of: a proper prefix
\* of another text, and texts inserted out of their sorted order.
InputActions == {ActionUpdate, ActionApplyStatus, ActionApply}

\* The zero value of the string type Action.
ZeroAction == ""

\* The bytes of an Action's text (Action is a Go string).
Text(a) ==
  CASE a = "Apply"        -> <<65, 112, 112, 108, 121>>
    [] a = "ApplyStatus"  -> <<65, 112, 112, 108, 121, 83, 116, 97, 116, 117, 115>>
    [] a = "Update"       -> <<85, 112, 100, 97, 116, 101>>
    [] a = "UpdateStatus" -> <<85, 112, 100, 97, 116, 101, 83, 116, 97, 116, 117, 115>>
    [] a = "Create"       -> <<67, 114, 101, 97, 116, 101>>
    [] a = "Delete"       -> <<68, 101, 108, 101, 116, 101>>
    [] OTHER              -> <<>>

(***************************************************************************)
(* Memory.                                                                 *)
(***************************************************************************)
Nil == 0
\* Address of the backing store of a zero-capacity, non-nil slice.
ZeroBase == -1

NilSlice == [arr |-> Nil, len |-> 0, cap |-> 0]
EmptySlice == [arr |-> ZeroBase, len |-> 0, cap |-> 0]

NilMap == [nil |-> TRUE, kv |-> <<>>]
EmptyMap == [nil |-> FALSE, kv |-> <<>>]

\* The memory as one value, for the operators below.
Mem == [trackers |-> trackers, ats |-> ats, arrays |-> arrays, recs |-> recs]

\* The memory once the garbage collector has freed the arrays at the end of
\* the heap that no actionTracker refers to (results of queries the caller
\* has let go of).
RECURSIVE LiveArrays(_, _)
LiveArrays(m, n) ==
  IF n = 0 \/ \E p \in 1..Len(m.ats) : m.ats[p].requests.arr = n THEN n
  ELSE LiveArrays(m, n - 1)

Collect(m) ==
  [m EXCEPT !.arrays = SubSeq(@, 1, LiveArrays(m, Len(m.arrays)))]

Cur == Collect(Mem)

\* The elements of a slice, as a sequence of record addresses.
Elems(m, s) ==
  IF s.len = 0 THEN <<>> ELSE SubSeq(m.arrays[s.arr], 1, s.len)

\* Capacity chosen by append when a slice of capacity cap must hold need
\* elements (runtime growslice for small pointer-sized elements, with the
\* allocator's size classes).
RoundUpCap(n) ==
  IF n <= 4 THEN n ELSE IF n <= 6 THEN 6 ELSE IF n <= 8 THEN 8 ELSE n

GrowCap(cap, need) ==
  RoundUpCap(IF need > 2 * cap THEN need ELSE 2 * cap)

\* append(s, xs...): in place when the capacity allows, else into a new array.
SliceAppend(m, s, xs) ==
  IF Len(xs) = 0 THEN [mem |-> m, slice |-> s]
  ELSE IF s.len + Len(xs) <= s.cap
  THEN [mem |-> [m EXCEPT !.arrays[s.arr] =
                    [i \in 1..s.cap |->
                       IF i > s.len /\ i <= s.len + Len(xs)
                       THEN xs[i - s.len] ELSE @[i]]],
        slice |-> [s EXCEPT !.len = s.len + Len(xs)]]
  ELSE LET newcap == GrowCap(s.cap, s.len + Len(xs))
           filled == Elems(m, s) \o xs
           newarr == [i \in 1..newcap |->
                        IF i <= Len(filled) THEN filled[i] ELSE Nil]
       IN [mem |-> [m EXCEPT !.arrays = Append(@, newarr)],
           slice |-> [arr |-> Len(m.arrays) + 1, len |-> Len(filled),
                      cap |-> newcap]]

(***************************************************************************)
(* The capability contract of T (SerializedRequestish).                    *)
(***************************************************************************)
\* request.GetSerializedRequest().Action
GetAction(m, r) == m.recs[r].action

\* The memory after a call of request.GetSerializedRequest(): the record reports its
\* field next from then on.  A record of stable classification has next equal
\* to action, and the call changes nothing.
Report(m, r) == [m EXCEPT !.recs[r].action = m.recs[r].next]

\* request.DeepCopy(): a new record, equal by content.
RecDeepCopy(m, r) ==
  [mem |-> [m EXCEPT !.recs = Append(@, m.recs[r])], ptr |-> Len(m.recs) + 1]

(***************************************************************************)
(* actionTracker                                                           *)
(***************************************************************************)
NewActionTrackerZero(action) == [action |-> ZeroAction, requests |-> NilSlice]

\* &actionTracker[T]{action: action}
NewActionTracker(action) == [action |-> action, requests |-> NilSlice]

ATAddRequestInverted(m, p, request) ==
  IF p = Nil THEN [mem |-> m, panic |-> "nil dereference"]
  ELSE IF m.ats[p].action = GetAction(m, request)
  THEN [mem |-> m, panic |-> "coding error"]
  ELSE LET ap == SliceAppend(m, m.ats[p].requests, <<request>>)
       IN [mem |-> [ap.mem EXCEPT !.ats[p].requests = ap.slice],
           panic |-> "none"]

ATAddRequestCheckAfter(m, p, request) ==
  IF p = Nil THEN [mem |-> m, panic |-> "nil dereference"]
  ELSE LET ap == SliceAppend(m, m.ats[p].requests, <<request>>)
           m2 == [ap.mem EXCEPT !.ats[p].requests = ap.slice]
       IN IF m.ats[p].action # GetAction(m, request)
          THEN [mem |-> m2, panic |-> "coding error"]
          ELSE [mem |-> m2, panic |-> "none"]

\* func (a *actionTracker[T]) AddRequest(request T)
ATAddRequest(m, p, request) ==
  IF p = Nil THEN [mem |-> m, panic |-> "nil dereference"]
  ELSE IF m.ats[p].action # GetAction(m, request)
  THEN [mem |-> m, panic |-> "coding error"]
  ELSE LET ap == SliceAppend(m, m.ats[p].requests, <<request>>)
       IN [mem |-> [ap.mem EXCEPT !.ats[p].requests = ap.slice],
           panic |-> "none"]

\* func (a *actionTracker[T]) Mutations() []T
Mutations(m, p) ==
  IF p = Nil THEN [ret |-> NilSlice, panic |-> "nil dereference"]
  ELSE [ret |-> m.ats[p].requests, panic |-> "none"]


ATDeepCopyShared(m, p) == [mem |-> m, ptr |-> p]

RECURSIVE ATDeepCopyLoopShallow(_, _, _, _)
ATDeepCopyLoopShallow(m, q, reqs, i) ==
  IF i > Len(reqs) THEN m
  ELSE LET ap == SliceAppend(m, m.ats[q].requests, <<reqs[i]>>)
       IN ATDeepCopyLoopShallow([ap.mem EXCEPT !.ats[q].requests = ap.slice],
                                q, reqs, i + 1)

RECURSIVE ATDeepCopyLoop(_, _, _, _)
ATDeepCopyLoop(m, q, reqs, i) ==
  IF i > Len(reqs) THEN m
  ELSE LET rc == RecDeepCopy(m, reqs[i])
           ap == SliceAppend(rc.mem, rc.mem.ats[q].requests, <<rc.ptr>>)
       IN ATDeepCopyLoop([ap.mem EXCEPT !.ats[q].requests = ap.slice],
                         q, reqs, i + 1)

ATDeepCopyNoAction(m, p) ==
  LET q == Len(m.ats) + 1
      m0 == [m EXCEPT !.ats = Append(@, [action |-> ZeroAction,
                                         requests |-> EmptySlice])]
  IN [mem |-> ATDeepCopyLoop(m0, q, Elems(m, m.ats[p].requests), 1),
      ptr |-> q]

\* func (a *actionTracker[T]) DeepCopy() *actionTracker[T]
ATDeepCopy(m, p) ==
  LET q == Len(m.ats) + 1
      m0 == [m EXCEPT !.ats = Append(@, [action |-> m.ats[p].action,
                                         requests |-> EmptySlice])]
  IN [mem |-> ATDeepCopyLoop(m0, q, Elems(m, m.ats[p].requests), 1),
      ptr |-> q]

(***************************************************************************)
(* AllActionsTracker                                                       *)
(***************************************************************************)
\* NewAllActionsTracker(): the mapping is made, and empty.
NewAllActionsTracker == [actionToTracker |-> EmptyMap]

\* The zero value AllActionsTracker[T]{}: the mapping is nil.
ZeroAllActionsTracker == [actionToTracker |-> NilMap]

\* Reading a map (a nil map reads as an empty one); a missing key reads as
\* the zero value of the element type, here the nil pointer.
Keys(mp) == DOMAIN mp.kv
MapGet(mp, k) == IF k \in DOMAIN mp.kv THEN mp.kv[k] ELSE Nil
MapSet(mp, k, v) == [mp EXCEPT !.kv = (k :> v) @@ mp.kv]

\* The orders in which a range over a map with key set S may visit the keys.
RECURSIVE Orders(_)
Orders(S) ==
  IF S = {} THEN {<<>>}
  ELSE UNION {{<<k>> \o o : o \in Orders(S \ {k})} : k \in S}

AddRequestAlwaysNew(m, t, request) ==
  LET m1 == IF m.trackers[t].actionToTracker.nil
            THEN [m EXCEPT !.trackers[t].actionToTracker = EmptyMap]
            ELSE m
      action == GetAction(m1, request)
      p == Len(m1.ats) + 1
      m2 == [m1 EXCEPT !.ats = Append(@, NewActionTracker(action)),
                       !.trackers[t].actionToTracker = MapSet(@, action, p)]
  IN ATAddRequest(m2, MapGet(m2.trackers[t].actionToTracker, action), request)

AddRequestNoNilCheck(m, t, request) ==
  LET action == GetAction(m, request)
      p == Len(m.ats) + 1
      m2 == IF action \notin Keys(m.trackers[t].actionToTracker)
            THEN [m EXCEPT !.ats = Append(@, NewActionTracker(action)),
                           !.trackers[t].actionToTracker = MapSet(@, action, p)]
            ELSE m
  IN IF m.trackers[t].actionToTracker.nil
     THEN [mem |-> Report(m, request), panic |-> "assignment to entry in nil map"]
     ELSE ATAddRequest(Report(m2, request),
                       MapGet(m2.trackers[t].actionToTracker, action), request)

\* func (a *AllActionsTracker[T]) AddRequest(request T)
AddRequest(m, t, request) ==
  LET m1 == IF m.trackers[t].actionToTracker.nil
            THEN [m EXCEPT !.trackers[t].actionToTracker = EmptyMap]
            ELSE m
      action == GetAction(m1, request)
      p == Len(m1.ats) + 1
      m2 == IF action \notin Keys(m1.trackers[t].actionToTracker)
            THEN [m1 EXCEPT !.ats = Append(@, NewActionTracker(action)),
                            !.trackers[t].actionToTracker = MapSet(@, action, p)]
            ELSE m1
  IN ATAddRequest(Report(m2, request),
                  MapGet(m2.trackers[t].actionToTracker, action), request)

\* func (a *AllActionsTracker[T]) AddRequests(requests ...T): done counts the
\* calls of AddRequest that returned.
RECURSIVE AddRequestsLoop(_, _, _, _)
AddRequestsLoop(m, t, requests, i) ==
  IF i > Len(requests) THEN [mem |-> m, panic |-> "none", done |-> i - 1]
  ELSE LET r == AddRequest(m, t, requests[i])
       IN IF r.panic # "none"
          THEN [mem |-> r.mem, panic |-> r.panic, done |-> i - 1]
          ELSE AddRequestsLoop(r.mem, t, requests, i + 1)

AddRequestsReversed(m, t, requests) ==
  AddRequestsLoop(m, t,
    [i \in 1..Len(requests) |-> requests[Len(requests) + 1 - i]], 1)

AddRequests(m, t, requests) == AddRequestsLoop(m, t, requests, 1)

\* The comparison of two Go strings: bytewise, a proper prefix first.
RECURSIVE BytesLess(_, _, _)
BytesLess(x, y, i) ==
  IF i > Len(x) \/ i > Len(y) THEN Len(x) < Len(y)
  ELSE IF x[i] # y[i] THEN x[i] < y[i]
  ELSE BytesLess(x, y, i + 1)

ActionLess(a, b) == BytesLess(Text(a), Text(b), 1)

\* sort.Sort over a slice of Actions.
RECURSIVE SortInsert(_, _)
SortInsert(a, s) ==
  IF s = <<>> THEN <<a>>
  ELSE IF ActionLess(a, Head(s)) THEN <<a>> \o s
  ELSE <<Head(s)>> \o SortInsert(a, Tail(s))

RECURSIVE SortActions(_)
SortActions(s) ==
  IF s = <<>> THEN <<>> ELSE SortInsert(Head(s), SortActions(Tail(s)))

ListActionsUnsorted(m, t, order) ==
  [mem |-> m, ret |-> order, panic |-> "none"]

\* func (a *AllActionsTracker[T]) ListActions() []Action
\* sets.KeySet and sets.List range over the map in the order given.
ListActions(m, t, order) ==
  [mem |-> m, ret |-> SortActions(order), panic |-> "none"]

RequestsForActionCreating(m, t, action) ==
  LET p == Len(m.ats) + 1
      m2 == IF action \notin Keys(m.trackers[t].actionToTracker)
            THEN [m EXCEPT !.ats = Append(@, NewActionTracker(action)),
                           !.trackers[t].actionToTracker =
                              [nil |-> FALSE, kv |-> (action :> p) @@ @.kv]]
            ELSE m
      mu == Mutations(m2, MapGet(m2.trackers[t].actionToTracker, action))
  IN [mem |-> m2, ret |-> mu.ret, panic |-> mu.panic]

\* func (a *AllActionsTracker[T]) RequestsForAction(action Action) []T
RequestsForAction(m, t, action) ==
  LET mu == Mutations(m, MapGet(m.trackers[t].actionToTracker, action))
  IN [mem |-> m, ret |-> mu.ret, panic |-> mu.panic]

RECURSIVE AllRequestsLoop(_, _, _, _, _)
AllRequestsLoop(m, t, order, i, ret) ==
  IF i > Len(order) THEN [mem |-> m, ret |-> ret, panic |-> "none"]
  ELSE LET mu == Mutations(m, MapGet(m.trackers[t].actionToTracker, order[i]))
       IN IF mu.panic # "none"
          THEN [mem |-> m, ret |-> NilSlice, panic |-> mu.panic]
          ELSE LET ap == SliceAppend(m, ret, Elems(m, mu.ret))
               IN AllRequestsLoop(ap.mem, t, order, i + 1, ap.slice)

AllRequestsAliasing(m, t, order) ==
  IF Len(order) = 0 THEN [mem |-> m, ret |-> EmptySlice, panic |-> "none"]
  ELSE AllRequestsLoop(m, t, order, 2,
         Mutations(m, MapGet(m.trackers[t].actionToTracker, order[1])).ret)

AllRequestsLastOnly(m, t, order) ==
  IF Len(order) = 0 THEN [mem |-> m, ret |-> EmptySlice, panic |-> "none"]
  ELSE AllRequestsLoop(m, t, order, Len(order), EmptySlice)

\* func (a *AllActionsTracker[T]) AllRequests() []T
AllRequests(m, t, order) == AllRequestsLoop(m, t, order, 1, EmptySlice)

RECURSIVE DeepCopyLoopIntoSource(_, _, _, _, _)
DeepCopyLoopIntoSource(m, t, c, order, i) ==
  IF i > Len(order) THEN m
  ELSE LET cp == ATDeepCopy(m, MapGet(m.trackers[t].actionToTracker, order[i]))
       IN DeepCopyLoopIntoSource(
            [cp.mem EXCEPT !.trackers[t].actionToTracker =
                              MapSet(@, order[i], cp.ptr)],
            t, c, order, i + 1)

RECURSIVE DeepCopyLoop(_, _, _, _, _)
DeepCopyLoop(m, t, c, order, i) ==
  IF i > Len(order) THEN m
  ELSE LET cp == ATDeepCopy(m, MapGet(m.trackers[t].actionToTracker, order[i]))
       IN DeepCopyLoop(
            [cp.mem EXCEPT !.trackers[c].actionToTracker =
                              MapSet(@, order[i], cp.ptr)],
            t, c, order, i + 1)

\* func (a *AllActionsTracker[T]) DeepCopy() *AllActionsTracker[T]
DeepCopy(m, t, order) ==
  LET c == Len(m.trackers) + 1
      m0 == [m EXCEPT !.trackers = Append(@, NewAllActionsTracker)]
  IN [mem |-> DeepCopyLoop(m0, t, c, order, 1), ret |-> c, panic |-> "none"]

(***************************************************************************)
(* History kept beside the program state: log[t] is the sequence of the    *)
(* records whose insertion into tracker t returned, base[t][a] the records *)
(* tracker t held under a when it was made (empty unless t is a copy), and *)
(* last the latest call: its operation, receiver, argument and outcome;    *)
(* writes counts the caller's writes through what the queries returned.    *)
(***************************************************************************)
Trackers == 1..Len(trackers)

RECURSIVE TotalAdds(_)
TotalAdds(t) == IF t = 0 THEN 0 ELSE Len(log[t]) + TotalAdds(t - 1)

NoBase == [a \in AllActions |-> <<>>]

\* The goroutines that call AddRequest on one tracker, and their state when
\* none of them is in a call: pc is the statement a goroutine is at, req,
\* action, p and h are the locals of its call (the record, the Action read
\* at line 64, the sub-tracker looked up at line 68 and the slice header read
\* at line 102), done the records whose insertion has returned to it,
\* overlap tells whether a goroutine ever took a step while another was in a
\* call, and fatal is the error that ended the program, if one did.
Procs == {1, 2}

NoCalls ==
  [pc |-> [p \in Procs |-> "idle"], req |-> [p \in Procs |-> Nil],
   action |-> [p \in Procs |-> ZeroAction], p |-> [p \in Procs |-> Nil],
   h |-> [p \in Procs |-> NilSlice], done |-> [p \in Procs |-> <<>>],
   overlap |-> FALSE, fatal |-> "none"]

\* The records tracker t holds under action a, as the memory m has them.
Held(m, t, a) ==
  LET p == MapGet(m.trackers[t].actionToTracker, a)
  IN IF p = Nil THEN <<>> ELSE Elems(m, m.ats[p].requests)

Call(op, t, arg, ret, panic) ==
  [op |-> op, tr |-> t, arg |-> arg, ret |-> ret, panic |-> panic]

SetMem(m) ==
  /\ trackers' = m.trackers
  /\ ats' = m.ats
  /\ arrays' = m.arrays
  /\ recs' = m.recs

InBounds(m) ==
  /\ Len(m.recs) <= MaxRecs
  /\ Len(m.trackers) <= MaxTrackers

\* The caller's new record: its Action, and a name that tells it apart.
NewRecord(m, a) ==
  [mem |-> [m EXCEPT !.recs = Append(@, [action |-> a, next |-> a,
                                         name |-> Len(m.recs) + 1])],
   ptr |-> Len(m.recs) + 1]

RECURSIVE NewRecords(_, _, _)
NewRecords(m, acts, i) ==
  IF i > Len(acts) THEN [mem |-> m, ptrs |-> <<>>]
  ELSE LET nr == NewRecord(m, acts[i])
           rest == NewRecords(nr.mem, acts, i + 1)
       IN [mem |-> rest.mem, ptrs |-> <<nr.ptr>> \o rest.ptrs]

Batches == UNION {[1..n -> InputActions] : n \in 0..MaxBatch}

Init ==
  /\ trackers \in {<<NewAllActionsTracker>>, <<ZeroAllActionsTracker>>}
  /\ ats = <<>>
  /\ arrays = <<>>
  /\ recs = <<>>
  /\ log = <<(<<>>)>>
  /\ base = <<NoBase>>
  /\ last = Call("new", 1, Nil, Nil, "none")
  /\ writes = 0
  /\ procs = NoCalls

\* t.AddRequest(r) for a record r the caller has just built.
AddRequestNew(t, a) ==
  LET nr == NewRecord(Cur, a)
      r == AddRequest(nr.mem, t, nr.ptr)
  IN /\ SetMem(r.mem)
     /\ log' = IF r.panic = "none" THEN [log EXCEPT ![t] = Append(@, nr.ptr)]
               ELSE log
     /\ last' = Call("AddRequest", t, nr.ptr, Nil, r.panic)
     /\ UNCHANGED <<base, writes, procs>>

DoAddRequestNew(t, a) ==
  /\ TotalAdds(Len(trackers)) < MaxAdds
  /\ Len(recs) < MaxRecs
  /\ AddRequestNew(t, a)

\* t.AddRequest(r) for a record r that exists already.
DoAddRequestOld(t, req) ==
  /\ TotalAdds(Len(trackers)) < MaxAdds
  /\ LET r == AddRequest(Cur, t, req)
     IN /\ InBounds(r.mem)
        /\ SetMem(r.mem)
        /\ log' = IF r.panic = "none" THEN [log EXCEPT ![t] = Append(@, req)]
                  ELSE log
        /\ last' = Call("AddRequest", t, req, Nil, r.panic)
  /\ UNCHANGED <<base, writes, procs>>

\* t.AddRequests(rs...) for records the caller has just built.
DoAddRequests(t, acts) ==
  /\ TotalAdds(Len(trackers)) + Len(acts) <= MaxAdds
  /\ LET nr == NewRecords(Cur, acts, 1)
         r == AddRequests(nr.mem, t, nr.ptrs)
     IN /\ InBounds(r.mem)
        /\ SetMem(r.mem)
        /\ log' = [log EXCEPT ![t] = @ \o SubSeq(nr.ptrs, 1, r.done)]
        /\ last' = Call("AddRequests", t, nr.ptrs, Nil, r.panic)
  /\ UNCHANGED <<base, writes, procs>>

DoListActions(t) ==
  \E order \in Orders(Keys(trackers[t].actionToTracker)) :
    LET r == ListActions(Cur, t, order)
    IN /\ SetMem(r.mem)
       /\ last' = Call("ListActions", t, Nil, r.ret, r.panic)
       /\ UNCHANGED <<log, base, writes, procs>>

DoRequestsForAction(t, a) ==
  LET r == RequestsForAction(Cur, t, a)
  IN /\ SetMem(r.mem)
     /\ last' = Call("RequestsForAction", t, a, r.ret, r.panic)
     /\ UNCHANGED <<log, base, writes, procs>>

DoAllRequests(t) ==
  \E order \in Orders(Keys(trackers[t].actionToTracker)) :
    LET r == AllRequests(Cur, t, order)
    IN /\ InBounds(r.mem)
       /\ SetMem(r.mem)
       /\ last' = Call("AllRequests", t, Nil, r.ret, r.panic)
       /\ UNCHANGED <<log, base, writes, procs>>

DoDeepCopy(t) ==
  \E order \in Orders(Keys(trackers[t].actionToTracker)) :
    LET r == DeepCopy(Cur, t, order)
    IN /\ InBounds(r.mem)
       /\ SetMem(r.mem)
       /\ log' = Append(log, <<>>)
       /\ base' = Append(base, [a \in AllActions |-> Held(r.mem, r.ret, a)])
       /\ last' = Call("DeepCopy", t, Nil, r.ret, r.panic)
       /\ UNCHANGED <<writes, procs>>

Next ==
  \/ \E t \in Trackers, a \in InputActions : DoAddRequestNew(t, a)
  \/ \E t \in Trackers, req \in 1..Len(recs) : DoAddRequestOld(t, req)
  \/ \E t \in Trackers, acts \in Batches : DoAddRequests(t, acts)
  \/ \E t \in Trackers : DoListActions(t)
  \/ \E t \in Trackers, a \in AllActions : DoRequestsForAction(t, a)
  \/ \E t \in Trackers : DoAllRequests(t)
  \/ \E t \in Trackers : DoDeepCopy(t)

Spec == Init /\ [][Next]_vars

(***************************************************************************)
(* The caller's use of what a query returned: last.ret is the slice the    *)
(* caller holds, and last.arg.from the query it came from.                 *)
(***************************************************************************)
QueryOps == {"RequestsForAction", "AllRequests"}
CallerOps == {"CallerOverwrite", "CallerMutate"}

HoldsSlice == last.op \in QueryOps \cup CallerOps /\ last.panic = "none"
Origin == IF last.op \in QueryOps THEN last.op ELSE last.arg.from

\* ret[i] = r, for a slice ret a query returned and a record r.
CallerOverwrite(i, r) ==
  /\ HoldsSlice
  /\ writes < MaxWrites
  /\ writes' = writes + 1
  /\ i \in 1..last.ret.len
  /\ arrays[last.ret.arr][i] # r
  /\ arrays' = [arrays EXCEPT ![last.ret.arr][i] = r]
  /\ last' = Call("CallerOverwrite", last.tr, [from |-> Origin, i |-> i],
                  last.ret, "none")
  /\ UNCHANGED <<trackers, ats, recs, log, base, procs>>

\* A write to a field (other than the Action) of the record ret[i].
CallerMutate(i) ==
  /\ HoldsSlice
  /\ writes < MaxWrites
  /\ writes' = writes + 1
  /\ i \in 1..last.ret.len
  /\ LET r == arrays[last.ret.arr][i]
     IN /\ recs[r].name # 0
        /\ recs' = [recs EXCEPT ![r].name = 0]
  /\ last' = Call("CallerMutate", last.tr, [from |-> Origin, i |-> i],
                  last.ret, "none")
  /\ UNCHANGED <<trackers, ats, arrays, log, base, procs>>

NextCaller ==
  \/ \E a \in InputActions : DoAddRequestNew(1, a)
  \/ \E a \in AllActions : DoRequestsForAction(1, a)
  \/ DoAllRequests(1)
  \/ \E i \in 1..MaxRecs, r \in 1..Len(recs) : CallerOverwrite(i, r)
  \/ \E i \in 1..MaxRecs : CallerMutate(i)

SpecCaller == Init /\ [][NextCaller]_vars

(***************************************************************************)
(* Insertions of one record per Action, in every order, and ListActions.   *)
(***************************************************************************)
DoAddFirst(a) ==
  /\ a \notin Keys(trackers[1].actionToTracker)
  /\ Cardinality(Keys(trackers[1].actionToTracker)) < MaxListKeys
  /\ AddRequestNew(1, a)

NextList ==
  \/ \E a \in AllActions : DoAddFirst(a)
  \/ DoListActions(1)

SpecList == Init /\ [][NextList]_vars

(***************************************************************************)
(* What the queries show of a tracker.                                     *)
(***************************************************************************)
\* The records at the addresses seq: each address with the record's content.
Recs(m, seq) == [i \in DOMAIN seq |-> [ptr |-> seq[i], val |-> m.recs[seq[i]]]]

\* The records whose insertion into t under a has returned, oldest first.
Inserted(t, a) ==
  base[t][a] \o SelectSeq(log[t], LAMBDA r : recs[r].action = a)

RECURSIVE SumLen(_, _)
SumLen(f, S) ==
  IF S = {} THEN 0
  ELSE LET a == CHOOSE x \in S : TRUE IN Len(f[a]) + SumLen(f, S \ {a})

\* The number of records tracker t was made with or has had inserted.
Insertions(t) == SumLen(base[t], AllActions) + Len(log[t])

Count(x, seq) == Cardinality({i \in DOMAIN seq : seq[i] = x})

\* Every result the three queries can return on tracker t in memory m.
Obs(m, t) ==
  LET orders == Orders(Keys(m.trackers[t].actionToTracker))
  IN [list |-> {ListActions(m, t, o).ret : o \in orders},
      reqs |-> [a \in AllActions |->
                  LET r == RequestsForAction(m, t, a)
                  IN [panic |-> r.panic, recs |-> Recs(m, Elems(m, r.ret))]],
      all  |-> {LET r == AllRequests(m, t, o)
                IN Recs(r.mem, Elems(r.mem, r.ret)) : o \in orders}]

\* C1: for every Action a that has received a record, RequestsForAction(a)
\* returns exactly the records inserted under a, in insertion order.
C1_InsertionOrder ==
  \A t \in Trackers : \A a \in AllActions :
    Inserted(t, a) # <<>> =>
      LET r == RequestsForAction(Mem, t, a)
      IN r.panic = "none" /\ Elems(Mem, r.ret) = Inserted(t, a)

\* Three insertions, the second under another Action than the first and
\* the third, and the query for the Action of the first has returned.
C1_Witness ==
  /\ Len(log[1]) = 3
  /\ recs[log[1][1]].action = recs[log[1][3]].action
  /\ recs[log[1][1]].action # recs[log[1][2]].action
  /\ last.op = "RequestsForAction" /\ last.tr = 1
  /\ last.arg = recs[log[1][1]].action
  /\ last.ret.len = 2

\* C2: RequestsForAction(a) for an Action a under which nothing was ever
\* recorded returns an empty sequence and does not fail.
C2_AbsentIsEmpty ==
  (last.op = "RequestsForAction" /\ Inserted(last.tr, last.arg) = <<>>)
    => (last.panic = "none" /\ last.ret.len = 0)

\* C3: an insertion into one tracker leaves every result of every query on
\* the other trackers (the copy, or the source it was copied from) as it was.
C3_CopyIndependent ==
  [][last'.op \in {"AddRequest", "AddRequests"} =>
       \A t \in Trackers \ {last'.tr} : Obs(Mem', t) = Obs(Mem, t)]_vars

\* A record was inserted into the source after the copy was made, under an
\* Action the copy holds too.
C3_Witness ==
  /\ Len(trackers) = 2
  /\ last.op = "AddRequest" /\ last.tr = 1 /\ last.panic = "none"
  /\ recs[last.arg].action \in Keys(trackers[2].actionToTracker)
  /\ Len(Held(Mem, 1, recs[last.arg].action)) >
       Len(Held(Mem, 2, recs[last.arg].action))

\* The Actions of tracker t, each with its sub-tracker's action field and
\* the contents of its records in order.
Content(m, t) ==
  [a \in Keys(m.trackers[t].actionToTracker) |->
     LET p == m.trackers[t].actionToTracker.kv[a]
     IN [action |-> m.ats[p].action,
         vals |-> [i \in 1..m.ats[p].requests.len |->
                     m.recs[Elems(m, m.ats[p].requests)[i]]]]]

\* C4: when DeepCopy returns, the copy has the Actions of the source, each
\* sub-tracker carries its key as its action, and under every Action the
\* copy holds records of the same contents in the same order.
C4_CopyEqualsSource ==
  last.op = "DeepCopy" =>
    /\ Content(Mem, last.ret) = Content(Mem, last.tr)
    /\ \A a \in Keys(trackers[last.ret].actionToTracker) :
         ats[trackers[last.ret].actionToTracker.kv[a]].action = a

\* A tracker with two Actions, one of them with two records, was copied.
C4_Witness ==
  /\ last.op = "DeepCopy"
  /\ Cardinality(Keys(trackers[last.tr].actionToTracker)) = 2
  /\ \E a \in AllActions : Len(Held(Mem, last.tr, a)) = 2

\* C5 as stated: nothing the caller does to what RequestsForAction or
\* AllRequests returned (overwriting an element of the sequence, writing to
\* a record) changes what any later query returns.
C5_QueriesIsolated ==
  [][last'.op \in CallerOps =>
       \A t \in Trackers : Obs(Mem', t) = Obs(Mem, t)]_vars

\* C5, amended: overwriting an element of the sequence AllRequests returned
\* changes no result of any later query.
C5_AllRequestsSliceIsolated ==
  [][(last'.op = "CallerOverwrite" /\ last'.arg.from = "AllRequests") =>
       \A t \in Trackers : Obs(Mem', t) = Obs(Mem, t)]_vars

\* The caller has overwritten an element of what AllRequests returned on a
\* tracker that holds two records or more.
C5_Witness ==
  /\ last.op = "CallerOverwrite" /\ last.arg.from = "AllRequests"
  /\ Len(log[1]) >= 2

\* The records RequestsForAction returns for the Actions of list, one
\* Action after the other.
RECURSIVE ConcatRequests(_, _, _)
ConcatRequests(m, t, list) ==
  IF list = <<>> THEN <<>>
  ELSE Elems(m, RequestsForAction(m, t, Head(list)).ret)
         \o ConcatRequests(m, t, Tail(list))

SameBag(s1, s2) == \A x \in 1..Len(recs) : Count(x, s1) = Count(x, s2)

\* C6: AllRequests() returns the records of RequestsForAction(a) over the
\* Actions a of ListActions(), each as often, and as many records as were
\* inserted.
C6_AllRequestsIsUnion ==
  /\ \A t \in Trackers :
       \A o \in Orders(Keys(trackers[t].actionToTracker)) :
         LET r == AllRequests(Mem, t, o)
             all == Elems(r.mem, r.ret)
             cat == ConcatRequests(Mem, t, ListActions(Mem, t, o).ret)
         IN r.panic = "none" /\ SameBag(all, cat) /\ Len(all) = Insertions(t)
  /\ last.op = "AllRequests" =>
       LET o == CHOOSE x \in Orders(Keys(trackers[last.tr].actionToTracker)) : TRUE
       IN /\ last.panic = "none"
          /\ SameBag(Elems(Mem, last.ret),
                     ConcatRequests(Mem, last.tr, ListActions(Mem, last.tr, o).ret))
          /\ last.ret.len = Insertions(last.tr)

\* AllRequests has returned three records of two Actions.
C6_Witness ==
  /\ last.op = "AllRequests" /\ last.ret.len = 3
  /\ Cardinality(Keys(trackers[last.tr].actionToTracker)) = 2

\* C7: the keys of the mapping, and the Actions ListActions() returns, are
\* the Actions that have received a record, each once; no sub-tracker of
\* the mapping holds zero records.
C7_KeysAreUsedActions ==
  \A t \in Trackers :
    LET ks == Keys(trackers[t].actionToTracker)
    IN /\ ks = {a \in AllActions : Inserted(t, a) # <<>>}
       /\ \A k \in ks : ats[trackers[t].actionToTracker.kv[k]].requests.len >= 1
       /\ \A o \in Orders(ks) :
            LET l == ListActions(Mem, t, o).ret
            IN {l[i] : i \in DOMAIN l} = ks /\ Len(l) = Cardinality(ks)

\* ListActions has returned two Actions on a tracker of three records.
C7_Witness ==
  /\ last.op = "ListActions" /\ Len(last.ret) = 2
  /\ Insertions(last.tr) = 3

\* x comes before y in the lexicographic order of byte sequences: they
\* agree on the first k bytes, where x ends and y does not, or where x has
\* the smaller byte.
LexBefore(x, y) ==
  \E k \in 0..Len(x) :
    /\ k <= Len(y)
    /\ \A i \in 1..k : x[i] = y[i]
    /\ \/ k = Len(x) /\ k < Len(y)
       \/ k < Len(x) /\ k < Len(y) /\ x[k + 1] < y[k + 1]

\* C8: ListActions() returns the Actions of the tracker in strictly
\* ascending lexicographic order of their texts, whatever the order of the
\* insertions and of the iteration over the mapping.
C8_ListActionsSorted ==
  last.op = "ListActions" =>
    /\ \A i \in 1..(Len(last.ret) - 1) :
         LexBefore(Text(last.ret[i]), Text(last.ret[i + 1]))
    /\ {last.ret[i] : i \in DOMAIN last.ret} = Keys(trackers[last.tr].actionToTracker)
    /\ \A o \in Orders(Keys(trackers[last.tr].actionToTracker)) :
         ListActions(Mem, last.tr, o).ret = last.ret

\* ListActions has returned four Actions, Apply and ApplyStatus among them,
\* that were inserted in descending order.
C8_Witness ==
  /\ last.op = "ListActions" /\ Len(last.ret) = 4
  /\ last.ret[1] = ActionApply /\ last.ret[2] = ActionApplyStatus
  /\ \A i \in 1..3 :
       LexBefore(Text(recs[log[1][i + 1]].action), Text(recs[log[1][i]].action))

\* C9: AllActionsTracker.AddRequest of a record whose Action is one of the
\* six succeeds in every reachable state: it does not reach the panic of
\* actionTracker.AddRequest, and the record is appended under its Action.
C9_AddRequestSucceeds ==
  /\ last.op \in {"AddRequest", "AddRequests"} => last.panic = "none"
  /\ \A t \in Trackers : \A r \in 1..Len(recs) :
       recs[r].action \in AllActions =>
         LET x == AddRequest(Mem, t, r)
         IN /\ x.panic = "none"
            /\ Held(x.mem, t, recs[r].action)
                 = Append(Held(Mem, t, recs[r].action), r)

\* AddRequest has returned for a record of an Action the tracker held
\* already.
C9_Witness ==
  /\ last.op = "AddRequest" /\ last.panic = "none"
  /\ Len(Held(Mem, last.tr, recs[last.arg].action)) >= 2

\* C10: every record of an actionTracker reports the tracker's action, and
\* the actionTracker under key k has action k; no two keys share a tracker.
C10_TrackerActions ==
  \A t \in Trackers :
    LET mp == trackers[t].actionToTracker
    IN /\ \A k \in Keys(mp) :
            /\ ats[mp.kv[k]].action = k
            /\ \A r \in {Elems(Mem, ats[mp.kv[k]].requests)[i] :
                           i \in 1..ats[mp.kv[k]].requests.len} :
                 GetAction(Mem, r) = ats[mp.kv[k]].action
       /\ \A k1, k2 \in Keys(mp) : k1 # k2 => mp.kv[k1] # mp.kv[k2]

\* A tracker holds three records under two Actions.
C10_Witness ==
  \E t \in Trackers :
    /\ Cardinality(Keys(trackers[t].actionToTracker)) = 2
    /\ \E a \in AllActions : Len(Held(Mem, t, a)) = 2
    /\ Len(log[t]) = 3

\* The calls AddRequest(r1); ...; AddRequest(rn), one after the other, the
\* caller stopping at the first that panics.
RECURSIVE Singles(_, _, _)
Singles(m, t, requests) ==
  IF requests = <<>> THEN [mem |-> m, panic |-> "none"]
  ELSE LET r == AddRequest(m, t, Head(requests))
       IN IF r.panic # "none" THEN [mem |-> r.mem, panic |-> r.panic]
          ELSE Singles(r.mem, t, Tail(requests))

OldBatches == UNION {[1..n -> 1..Len(recs)] : n \in 0..MaxBatch}

\* C12: from every reachable state, AddRequests(r1, ..., rn) leaves the
\* memory the calls AddRequest(r1); ...; AddRequest(rn) leave, and
\* AddRequests() leaves it as it is.
C12_AddRequestsIsSingles ==
  \A t \in Trackers :
    /\ \A acts \in Batches :
         LET nr == NewRecords(Mem, acts, 1)
             b == AddRequests(nr.mem, t, nr.ptrs)
             o == Singles(nr.mem, t, nr.ptrs)
         IN b.mem = o.mem /\ b.panic = o.panic
    /\ \A requests \in OldBatches :
         LET b == AddRequests(Mem, t, requests)
             o == Singles(Mem, t, requests)
         IN b.mem = o.mem /\ b.panic = o.panic
    /\ AddRequests(Mem, t, <<>>).mem = Mem

\* AddRequests has returned for two records of one Action, on a tracker
\* that held a record of that Action.
C12_Witness ==
  /\ last.op = "AddRequests" /\ Len(last.arg) = 2
  /\ recs[last.arg[1]].action = recs[last.arg[2]].action
  /\ Len(Held(Mem, last.tr, recs[last.arg[1]].action)) = 3

FrameOps == {"ListActions", "RequestsForAction", "AllRequests", "DeepCopy"}

\* C13: ListActions, RequestsForAction, AllRequests and DeepCopy leave the
\* mapping of every tracker there is, its sub-trackers and their record
\* sequences as they were, and with them every result of every query on
\* the receiver.
C13_QueriesDoNotMutate ==
  [][last'.op \in FrameOps =>
       \A t \in Trackers :
         /\ trackers'[t] = trackers[t]
         /\ \A a \in Keys(trackers[t].actionToTracker) :
              /\ ats'[trackers[t].actionToTracker.kv[a]]
                   = ats[trackers[t].actionToTracker.kv[a]]
              /\ Held(Mem', t, a) = Held(Mem, t, a)
         /\ t = last'.tr => Obs(Mem', t) = Obs(Mem, t)]_vars

\* A tracker of three records has been copied.
C13_Witness ==
  /\ last.op = "DeepCopy" /\ Len(log[last.tr]) = 3
  /\ Len(trackers) = 2

IsPrefix(s1, s2) == Len(s1) <= Len(s2) /\ SubSeq(s2, 1, Len(s1)) = s1

\* C14: in every step, under every Action the records a tracker held are a
\* prefix of those it holds after, its Actions stay its Actions, and a
\* tracker with entries keeps entries.
C14_AppendOnly ==
  [][\A t \in Trackers :
       LET ks == Keys(trackers[t].actionToTracker)
           ks2 == Keys(trackers'[t].actionToTracker)
       IN /\ ks \subseteq ks2
          /\ ks # {} => ks2 # {}
          /\ \A a \in AllActions : IsPrefix(Held(Mem, t, a), Held(Mem', t, a))]_vars

\* A sub-tracker has grown to three records.
C14_Witness ==
  \E t \in Trackers, a \in AllActions :
    Len(Held(Mem, t, a)) = 3 /\ last.op \in {"AddRequest", "AddRequests"}

\* The records tracker t holds under the Actions of order, block by block.
RECURSIVE ConcatHeld(_, _, _)
ConcatHeld(m, t, order) ==
  IF order = <<>> THEN <<>>
  ELSE Held(m, t, Head(order)) \o ConcatHeld(m, t, Tail(order))

\* C15: what AllRequests() returns is, for some order of the Actions of the
\* tracker, the records of the first Action in insertion order, then those
\* of the second, and so on; it is empty on a tracker without insertions.
C15_AllRequestsBlocks ==
  /\ \A t \in Trackers :
       \A o \in Orders(Keys(trackers[t].actionToTracker)) :
         LET r == AllRequests(Mem, t, o)
         IN /\ r.panic = "none"
            /\ Elems(r.mem, r.ret) = ConcatHeld(Mem, t, o)
            /\ \A a \in Keys(trackers[t].actionToTracker) :
                 Held(Mem, t, a) = Inserted(t, a)
  /\ last.op = "AllRequests" =>
       /\ last.panic = "none"
       /\ \E o \in Orders(Keys(trackers[last.tr].actionToTracker)) :
            Elems(Mem, last.ret) = ConcatHeld(Mem, last.tr, o)
       /\ Insertions(last.tr) = 0 => last.ret.len = 0

\* AllRequests has returned the two records of one Action side by side,
\* though a record of another Action was inserted between them.
C15_Witness ==
  /\ last.op = "AllRequests" /\ last.tr = 1 /\ Len(log[1]) = 3
  /\ recs[log[1][1]].action = recs[log[1][3]].action
  /\ recs[log[1][1]].action # recs[log[1][2]].action
  /\ \E i \in 1..2 : /\ Elems(Mem, last.ret)[i] = log[1][1]
                     /\ Elems(Mem, last.ret)[i + 1] = log[1][3]

(***************************************************************************)
(* Calls of actionTracker.AddRequest on a sub-tracker itself, as code of   *)
(* the package can make them, with records of any Action.                  *)
(***************************************************************************)
\* The trackers whose mapping holds the sub-tracker p.
Owners(p) ==
  {t \in Trackers : \E a \in Keys(trackers[t].actionToTracker) :
                      trackers[t].actionToTracker.kv[a] = p}

\* p.AddRequest(r) for a record r of Action a the caller has just built;
\* last.ret keeps the records p held before the call.
DoATAddRequest(p, a) ==
  /\ Len(recs) < MaxRecs
  /\ LET nr == NewRecord(Cur, a)
         r == ATAddRequest(nr.mem, p, nr.ptr)
     IN /\ SetMem(r.mem)
        /\ log' = [t \in Trackers |->
                     IF r.panic = "none" /\ t \in Owners(p)
                     THEN Append(log[t], nr.ptr) ELSE log[t]]
        /\ last' = Call("ATAddRequest", p, nr.ptr,
                        Elems(Mem, ats[p].requests), r.panic)
  /\ UNCHANGED <<base, writes, procs>>

NextDirect ==
  \/ \E a \in InputActions : DoAddRequestNew(1, a)
  \/ \E p \in 1..Len(ats), a \in InputActions : DoATAddRequest(p, a)
  \/ \E a \in AllActions : DoRequestsForAction(1, a)

SpecDirect == Init /\ [][NextDirect]_vars

\* C11: actionTracker.AddRequest of a record whose Action is not the
\* tracker's panics and appends nothing: the tracker's sequence, and the
\* memory, are after the call what they were before.
C11_MismatchPanics ==
  /\ \A p \in 1..Len(ats) : \A r \in 1..Len(recs) :
       ats[p].action # GetAction(Mem, r) =>
         LET x == ATAddRequest(Mem, p, r)
         IN x.panic = "coding error" /\ x.mem = Mem
  /\ (last.op = "ATAddRequest" /\ ats[last.tr].action # recs[last.arg].action)
       => /\ last.panic = "coding error"
          /\ Elems(Mem, ats[last.tr].requests) = last.ret

\* A sub-tracker that holds two records was called with a record of
\* another Action.
C11_Witness ==
  /\ last.op = "ATAddRequest" /\ last.panic = "coding error"
  /\ Len(last.ret) = 2
  /\ ats[last.tr].action # recs[last.arg].action

(***************************************************************************)
(* Trackers and their copies, with a caller that writes to the records the *)
(* queries return.  The records inserted are new ones, so that two         *)
(* trackers hold a record in common only if DeepCopy made them so.         *)
(***************************************************************************)
NextCopy ==
  \/ \E t \in Trackers, a \in InputActions : DoAddRequestNew(t, a)
  \/ \E t \in Trackers : DoDeepCopy(t)
  \/ \E t \in Trackers, a \in InputActions : DoRequestsForAction(t, a)
  \/ \E i \in 1..MaxRecs : CallerMutate(i)

SpecCopy == Init /\ [][NextCopy]_vars

\* The addresses of the sub-trackers, arrays and records of tracker t.
SubTrackers(m, t) ==
  {m.trackers[t].actionToTracker.kv[a] : a \in Keys(m.trackers[t].actionToTracker)}
ArraysOf(m, t) == {m.ats[p].requests.arr : p \in SubTrackers(m, t)}
RecordsOf(m, t) ==
  UNION {{Held(m, t, a)[i] : i \in DOMAIN Held(m, t, a)} : a \in AllActions}

\* C16: the tracker DeepCopy returns is a new one whose sub-trackers,
\* arrays and records are all new; and a write to a record that a query on
\* one tracker returned changes no result of any query on another tracker.
C16_CopySharesNothing ==
  [][/\ last'.op = "DeepCopy" =>
          /\ last'.ret = Len(trackers) + 1
          /\ \A p \in SubTrackers(Mem', last'.ret) : p > Len(ats)
          /\ \A t \in Trackers :
               /\ ArraysOf(Mem', last'.ret) \cap ArraysOf(Mem', t) = {}
               /\ RecordsOf(Mem', last'.ret) \cap RecordsOf(Mem', t) = {}
          /\ \A r \in RecordsOf(Mem', last'.ret) : r > Len(recs)
     /\ last'.op = "CallerMutate" =>
          \A t \in Trackers \ {last'.tr} : Obs(Mem', t) = Obs(Mem, t)]_vars

\* The caller has written to a record of the source of which the copy
\* holds a copy.
C16_Witness ==
  /\ last.op = "CallerMutate" /\ last.tr = 1 /\ Len(trackers) = 2
  /\ \E a \in AllActions :
       /\ Len(base[2][a]) >= 1
       /\ recs[base[2][a][1]].name # 0
       /\ recs[Held(Mem, 1, a)[1]].name = 0

(***************************************************************************)
(* Records of unstable classification: GetAction reports one Action to     *)
(* AllActionsTracker.AddRequest and another to actionTracker.AddRequest.   *)
(* They are what makes the check of actionTracker.AddRequest fail on the   *)
(* path through AllActionsTracker.                                         *)
(***************************************************************************)
\* t.AddRequests(rs...) for new records of Actions acts, of which the k-th
\* reports b from its second report on.
DoAddRequestsUnstable(t, acts, k, b) ==
  /\ k \in DOMAIN acts
  /\ b # acts[k]
  /\ TotalAdds(Len(trackers)) + Len(acts) <= MaxAdds
  /\ LET nr == NewRecords(Cur, acts, 1)
         m == [nr.mem EXCEPT !.recs[nr.ptrs[k]].next = b]
         r == AddRequests(m, t, nr.ptrs)
     IN /\ InBounds(r.mem)
        /\ SetMem(r.mem)
        /\ log' = [log EXCEPT ![t] = @ \o SubSeq(nr.ptrs, 1, r.done)]
        /\ last' = Call("AddRequests", t, nr.ptrs, r.done, r.panic)
  /\ UNCHANGED <<base, writes, procs>>

NextUnstable ==
  \/ \E acts \in Batches :
       Len(recs) + Len(acts) <= MaxAdds /\ DoAddRequests(1, acts)
  \/ \E acts \in Batches, k \in 1..MaxBatch, b \in InputActions :
       Len(recs) + Len(acts) <= MaxAdds /\ DoAddRequestsUnstable(1, acts, k, b)
  \/ DoListActions(1)
  \/ \E a \in InputActions : DoRequestsForAction(1, a)

SpecUnstable == Init /\ [][NextUnstable]_vars

\* C17: when AddRequests aborts on the check of actionTracker.AddRequest,
\* the tracker holds under every Action exactly the records inserted before
\* the abort, in order, and its mapping has no Action without a record.
C17_AbortKeepsInvariants ==
  (last.op = "AddRequests" /\ last.panic = "coding error") =>
    /\ \A a \in AllActions : Held(Mem, last.tr, a) = Inserted(last.tr, a)
    /\ \A a \in Keys(trackers[last.tr].actionToTracker) :
         Len(Held(Mem, last.tr, a)) >= 1

(***************************************************************************)
(* Twins: the trackers come in pairs (t, t + 1), t odd.  The first pair is *)
(* a tracker built by NewAllActionsTracker and a zero-value tracker; every *)
(* operation is applied to both trackers of a pair, with the same          *)
(* argument, and DeepCopy makes a new pair of the two copies.  The map     *)
(* iteration orders of the two calls are independent.                      *)
(***************************************************************************)
InitTwin ==
  /\ trackers = <<NewAllActionsTracker, ZeroAllActionsTracker>>
  /\ ats = <<>>
  /\ arrays = <<>>
  /\ recs = <<>>
  /\ log = <<(<<>>), (<<>>)>>
  /\ base = <<NoBase, NoBase>>
  /\ last = Call("new", 1, Nil, Nil, "none")
  /\ writes = 0
  /\ procs = NoCalls

\* The Actions of the records inserted into the pairs.
TwinActions == {ActionUpdate, ActionApply}

Pairs == {t \in Trackers : t % 2 = 1}

\* The contents of the records at the addresses seq.
Vals(m, seq) == [i \in DOMAIN seq |-> m.recs[seq[i]]]

TwinAddRequest(t, a) ==
  /\ Len(recs) < MaxRecs
  /\ TotalAdds(Len(trackers)) < 2 * MaxAdds
  /\ LET nr == NewRecord(Cur, a)
         r1 == AddRequest(nr.mem, t, nr.ptr)
         r2 == AddRequest(r1.mem, t + 1, nr.ptr)
     IN /\ SetMem(r2.mem)
        /\ log' = [u \in Trackers |->
                     IF (u = t /\ r1.panic = "none") \/ (u = t + 1 /\ r2.panic = "none")
                     THEN Append(log[u], nr.ptr) ELSE log[u]]
        /\ last' = Call("AddRequest", t, nr.ptr, <<Nil, Nil>>, <<r1.panic, r2.panic>>)
  /\ UNCHANGED <<base, writes, procs>>

TwinListActions(t) ==
  \E o1 \in Orders(Keys(trackers[t].actionToTracker)),
     o2 \in Orders(Keys(trackers[t + 1].actionToTracker)) :
    LET r1 == ListActions(Cur, t, o1)
        r2 == ListActions(r1.mem, t + 1, o2)
    IN /\ SetMem(r2.mem)
       /\ last' = Call("ListActions", t, <<o1, o2>>, <<r1.ret, r2.ret>>,
                       <<r1.panic, r2.panic>>)
       /\ UNCHANGED <<log, base, writes, procs>>

TwinAllRequests(t) ==
  \E o1 \in Orders(Keys(trackers[t].actionToTracker)),
     o2 \in Orders(Keys(trackers[t + 1].actionToTracker)) :
    LET r1 == AllRequests(Cur, t, o1)
        r2 == AllRequests(r1.mem, t + 1, o2)
    IN /\ SetMem(r2.mem)
       /\ last' = Call("AllRequests", t, <<o1, o2>>,
                       <<Vals(r1.mem, Elems(r1.mem, r1.ret)),
                         Vals(r2.mem, Elems(r2.mem, r2.ret))>>,
                       <<r1.panic, r2.panic>>)
       /\ UNCHANGED <<log, base, writes, procs>>

TwinDeepCopy(t) ==
  /\ Len(trackers) < 2 * MaxTrackers
  /\ \E o1 \in Orders(Keys(trackers[t].actionToTracker)),
        o2 \in Orders(Keys(trackers[t + 1].actionToTracker)) :
       LET r1 == DeepCopy(Cur, t, o1)
           r2 == DeepCopy(r1.mem, t + 1, o2)
       IN /\ Len(r2.mem.recs) <= MaxRecs
          /\ SetMem(r2.mem)
          /\ log' = log \o <<(<<>>), (<<>>)>>
          /\ base' = base \o <<[a \in AllActions |-> Held(r2.mem, r1.ret, a)],
                               [a \in AllActions |-> Held(r2.mem, r2.ret, a)]>>
          /\ last' = Call("DeepCopy", t, <<o1, o2>>, <<r1.ret, r2.ret>>,
                          <<r1.panic, r2.panic>>)
  /\ UNCHANGED <<writes, procs>>

NextTwin ==
  \/ \E t \in Pairs, a \in TwinActions : TwinAddRequest(t, a)
  \/ \E t \in Pairs : TwinListActions(t)
  \/ \E t \in Pairs : TwinAllRequests(t)
  \/ \E t \in Pairs : TwinDeepCopy(t)

SpecTwin == InitTwin /\ [][NextTwin]_vars

\* Every result the queries can return on tracker t, records by content.
ObsVals(m, t) ==
  LET orders == Orders(Keys(m.trackers[t].actionToTracker))
  IN [list |-> {ListActions(m, t, o).ret : o \in orders},
      all  |-> {LET r == AllRequests(m, t, o)
                IN Vals(r.mem, Elems(r.mem, r.ret)) : o \in orders}]

\* C19: a zero-value tracker and one built by NewAllActionsTracker, put
\* through the same operations, and the copies made of them, give the same
\* results: each call has the same outcome on both, ListActions returns the
\* same list, AllRequests the same records in the same order when the maps
\* are iterated in the same order, and the first AddRequest on the
\* zero-value tracker makes its mapping.
C19_ZeroValueEquivalent ==
  /\ \A t \in Pairs : /\ ObsVals(Mem, t) = ObsVals(Mem, t + 1)
                      /\ Content(Mem, t) = Content(Mem, t + 1)
  /\ last.op # "new" =>
       /\ last.panic = <<"none", "none">>
       /\ last.op = "ListActions" => last.ret[1] = last.ret[2]
       /\ (last.op = "AllRequests" /\ last.arg[1] = last.arg[2]) =>
            last.ret[1] = last.ret[2]
  /\ Len(log[2]) >= 1 => ~trackers[2].actionToTracker.nil

\* AllRequests has returned on the copies of the first pair, made when the
\* pair held records of two Actions, the zero-value tracker having had two
\* records inserted.
C19_Witness ==
  /\ Len(trackers) = 4
  /\ last.op = "AllRequests" /\ last.tr = 3
  /\ Len(last.ret[2]) >= 2
  /\ Cardinality(Keys(trackers[4].actionToTracker)) = 2
  /\ Len(log[2]) >= 2
  /\ ~trackers[2].actionToTracker.nil

(***************************************************************************)
(* Two goroutines that call AddRequest on tracker 1 with no lock.  A step  *)
(* is one statement of AllActionsTracker.AddRequest or of                  *)
(* actionTracker.AddRequest; the append of line 102 is two steps, the read *)
(* of the slice header and the write of the element and of the new header. *)
(* Where the accesses race, the outcomes of the race are all possible: a   *)
(* map access beside a map write may end the program with the runtime's    *)
(* fatal error, and a header read beside a header write may see any mix of *)
(* the words of the two headers.  A panic or a fatal error ends the        *)
(* program.                                                                *)
(***************************************************************************)
RaceActions == {ActionUpdate, ActionApply}

Busy(p) == \E q \in Procs \ {p} : procs.pc[q] # "idle"

Running == procs.fatal = "none"

AllIdle == \A p \in Procs : procs.pc[p] = "idle"

\* pr once goroutine p has moved to statement pc.
Goto(pr, p, pc) == [pr EXCEPT !.pc[p] = pc, !.overlap = @ \/ Busy(p)]

\* procs once a step of goroutine p has ended the program.
Fatal(p, msg) == [procs EXCEPT !.fatal = msg, !.overlap = @ \/ Busy(p)]

\* The statements that read or write the map.
MapSteps == {"lookup", "create", "get"}

\* A header whose array holds len and cap elements.
ValidHeader(h) ==
  IF h.arr \in 1..Len(arrays)
  THEN h.len <= Len(arrays[h.arr]) /\ h.cap <= Len(arrays[h.arr])
  ELSE h.len = 0 /\ h.cap = 0

\* What goroutine p can read as the header of its sub-tracker's slice: the
\* header in memory, or words of it mixed with words of a header another
\* goroutine is about to write there.
Headers(p) ==
  LET cur == ats[procs.p[p]].requests
      writers == {q \in Procs \ {p} : /\ procs.pc[q] = "store"
                                      /\ procs.p[q] = procs.p[p]
                                      /\ ValidHeader(procs.h[q])}
      S == {cur} \cup {SliceAppend(Mem, procs.h[q], <<procs.req[q]>>).slice :
                         q \in writers}
  IN {[arr |-> x.arr, len |-> y.len, cap |-> z.cap] : x \in S, y \in S, z \in S}

\* go a.AddRequest(request), for a new record of Action a
RaceCall(p, a) ==
  /\ Running /\ procs.pc[p] = "idle"
  /\ Len(procs.done[p]) < MaxCalls
  /\ LET nr == NewRecord(Mem, a)
     IN /\ recs' = nr.mem.recs
        /\ procs' = Goto([procs EXCEPT !.req[p] = nr.ptr], p, "nilcheck")
  /\ UNCHANGED <<trackers, ats, arrays, log, base, last, writes>>

\* if a.actionToTracker == nil
RaceNilCheck(p) ==
  /\ Running /\ procs.pc[p] = "nilcheck"
  /\ procs' = Goto(procs, p, IF trackers[1].actionToTracker.nil
                             THEN "makemap" ELSE "read")
  /\ UNCHANGED <<trackers, ats, arrays, recs, log, base, last, writes>>

\* a.actionToTracker = map[Action]*actionTracker[T]{}
RaceMakeMap(p) ==
  /\ Running /\ procs.pc[p] = "makemap"
  /\ trackers' = [trackers EXCEPT ![1].actionToTracker = EmptyMap]
  /\ procs' = Goto(procs, p, "read")
  /\ UNCHANGED <<ats, arrays, recs, log, base, last, writes>>

\* action := request.GetSerializedRequest().Action
RaceReadAction(p) ==
  /\ Running /\ procs.pc[p] = "read"
  /\ recs' = Report(Mem, procs.req[p]).recs
  /\ procs' = Goto([procs EXCEPT !.action[p] = GetAction(Mem, procs.req[p])],
                   p, "lookup")
  /\ UNCHANGED <<trackers, ats, arrays, log, base, last, writes>>

\* if _, ok := a.actionToTracker[action]; !ok
RaceLookup(p) ==
  /\ Running /\ procs.pc[p] = "lookup"
  /\ procs' = Goto(procs, p,
                   IF procs.action[p] \in Keys(trackers[1].actionToTracker)
                   THEN "get" ELSE "create")
  /\ UNCHANGED <<trackers, ats, arrays, recs, log, base, last, writes>>

\* a.actionToTracker[action] = &actionTracker[T]{action: action}
RaceCreate(p) ==
  /\ Running /\ procs.pc[p] = "create"
  /\ ats' = Append(ats, NewActionTracker(procs.action[p]))
  /\ trackers' = [trackers EXCEPT ![1].actionToTracker =
                    MapSet(@, procs.action[p], Len(ats) + 1)]
  /\ procs' = Goto(procs, p, "get")
  /\ UNCHANGED <<arrays, recs, log, base, last, writes>>

\* a.actionToTracker[action], the receiver of the call of line 68
RaceGet(p) ==
  /\ Running /\ procs.pc[p] = "get"
  /\ procs' = Goto([procs EXCEPT !.p[p] =
                      MapGet(trackers[1].actionToTracker, procs.action[p])],
                   p, "check")
  /\ UNCHANGED <<trackers, ats, arrays, recs, log, base, last, writes>>

\* if a.action != request.GetSerializedRequest().Action { panic(...) }
RaceCheck(p) ==
  /\ Running /\ procs.pc[p] = "check"
  /\ procs' = IF procs.p[p] = Nil THEN Fatal(p, "nil dereference")
              ELSE IF ats[procs.p[p]].action # GetAction(Mem, procs.req[p])
              THEN Fatal(p, "coding error")
              ELSE Goto(procs, p, "load")
  /\ UNCHANGED <<trackers, ats, arrays, recs, log, base, last, writes>>

\* append(a.requests, request): the read of a.requests
RaceLoad(p) ==
  /\ Running /\ procs.pc[p] = "load"
  /\ \E h \in Headers(p) : procs' = Goto([procs EXCEPT !.h[p] = h], p, "store")
  /\ UNCHANGED <<trackers, ats, arrays, recs, log, base, last, writes>>

\* a.requests = append(...): the write of the element and of the header,
\* and the return of the call
RaceStore(p) ==
  /\ Running /\ procs.pc[p] = "store"
  /\ IF ValidHeader(procs.h[p])
     THEN LET ap == SliceAppend(Mem, procs.h[p], <<procs.req[p]>>)
          IN /\ arrays' = ap.mem.arrays
             /\ ats' = [ats EXCEPT ![procs.p[p]].requests = ap.slice]
             /\ procs' = Goto([procs EXCEPT !.done[p] = Append(@, procs.req[p])],
                              p, "idle")
             /\ log' = [log EXCEPT ![1] = Append(@, procs.req[p])]
             /\ last' = Call("AddRequest", 1, procs.req[p], Nil, "none")
     ELSE /\ procs' = Fatal(p, "memory fault")
          /\ UNCHANGED <<ats, arrays, log, last>>
  /\ UNCHANGED <<trackers, recs, base, writes>>

\* fatal error: concurrent map writes, or concurrent map read and map write
RaceMapFault(p) ==
  /\ Running /\ procs.pc[p] \in MapSteps
  /\ \E q \in Procs \ {p} :
       /\ procs.pc[q] \in MapSteps
       /\ procs.pc[p] = "create" \/ procs.pc[q] = "create"
  /\ procs' = Fatal(p, "concurrent map access")
  /\ UNCHANGED <<trackers, ats, arrays, recs, log, base, last, writes>>

NextRace ==
  \/ \E p \in Procs, a \in RaceActions : RaceCall(p, a)
  \/ \E p \in Procs : RaceNilCheck(p)
  \/ \E p \in Procs : RaceMakeMap(p)
  \/ \E p \in Procs : RaceReadAction(p)
  \/ \E p \in Procs : RaceLookup(p)
  \/ \E p \in Procs : RaceCreate(p)
  \/ \E p \in Procs : RaceGet(p)
  \/ \E p \in Procs : RaceCheck(p)
  \/ \E p \in Procs : RaceLoad(p)
  \/ \E p \in Procs : RaceStore(p)
  \/ \E p \in Procs : RaceMapFault(p)

SpecRace == Init /\ [][NextRace]_vars

\* The records of goroutine p among seq, in the order of seq.
Of(p, seq) ==
  SelectSeq(seq, LAMBDA r : \E i \in DOMAIN procs.done[p] : procs.done[p][i] = r)

\* The records whose insertion has returned, of all goroutines.
Returned == UNION {{procs.done[p][i] : i \in DOMAIN procs.done[p]} : p \in Procs}

\* C18: as long as no goroutine has taken a step of AddRequest while
\* another was in a call, no call fails, and once the calls have returned
\* RequestsForAction(a) returns every record inserted under a once, each
\* goroutine's records in the order it inserted them; so a record of a
\* returned call is absent only when calls have interleaved.
C18_AtomicInsertsRecorded ==
  ~procs.overlap =>
    /\ procs.fatal = "none"
    /\ AllIdle =>
         \A a \in AllActions :
           LET r == RequestsForAction(Mem, 1, a)
               held == IF r.panic = "none" THEN Elems(Mem, r.ret) ELSE <<>>
           IN /\ \A p \in Procs :
                   Of(p, held) =
                     SelectSeq(procs.done[p], LAMBDA x : recs[x].action = a)
              /\ Len(held) =
                   Cardinality({x \in Returned : recs[x].action = a})

\* Two calls of AddRequest have interleaved and both have returned, and the
\* record of one of them is not among the records RequestsForAction returns.
C18_Witness ==
  /\ AllIdle /\ procs.fatal = "none" /\ procs.overlap
  /\ Len(procs.done[1]) = 1 /\ Len(procs.done[2]) = 1
  /\ \E p \in Procs :
       LET x == procs.done[p][1]
           r == RequestsForAction(Mem, 1, recs[x].action)
       IN r.panic = "none" /\ \A i \in 1..r.ret.len : Elems(Mem, r.ret)[i] # x

====
